---- MODULE Spec2Model ----
(***************************************************************************)
(* Block pre-splitter of zstd (lib/compress/zstd_preSplit.c).              *)
(*                                                                         *)
(* ZSTD_splitBlock walks a 128 KiB block in 8 KiB chunks.  It records a    *)
(* fingerprint (a histogram of hashed 2-byte windows) of every chunk,      *)
(* compares it with the accumulated fingerprint of the chunks before it    *)
(* and returns the offset of the first chunk that is "too different", or   *)
(* blockSize.  The model keeps the program's constants (chunk size, block  *)
(* size, sampling rates, hash widths, the 32-bit multiplicative hash).     *)
(*                                                                         *)
(* One call is cut into steps at the loop head: Enter (initStats and the   *)
(* fingerprint of chunk 0), Scan (one iteration of the for loop), NoSplit  *)
(* (the loop's exit).  CallAgain is the caller invoking the function once  *)
(* more on the same block with the workspace as the last call left it.     *)
(*                                                                         *)
(* TLC's integers are 32 bits wide, the program's are U32/U64/size_t.      *)
(* Where a product of the program exceeds 31 bits it is computed in parts  *)
(* (Mul32High16, MulDiv); the value is the program's.                      *)
(***************************************************************************)
EXTENDS Bags, FiniteSets, Integers, Sequences, TLC

VARIABLES
    block,      \* the content of the block at blockStart (a description, see byteAt)
    splitStrat, \* the strategy of the call: 0 split_lvl1, 1 split_lvl2, 2 split_lvl3
    fpstats,    \* the workspace, an FPStats: pastEvents and newEvents
    penalty,    \* local of ZSTD_splitBlock_byChunks
    pos,        \* local of ZSTD_splitBlock_byChunks
    pc,         \* where the call is: INIT, SCANNING, SPLIT_FOUND, NO_SPLIT
    ret,        \* the value returned by the call (NoRet until it returns)
    src,        \* the offset of the chunk given to the latest record_f call
    deviation,  \* local of the latest compareFingerprints call
    threshold,  \* local of the latest compareFingerprints call
    returned,   \* per strategy, what an earlier call on this block returned
    calls       \* the number of calls made on this block, this one included

vars == <<block, splitStrat, fpstats, penalty, pos, pc, ret, src, deviation,
          threshold, returned, calls>>

-----------------------------------------------------------------------------
(* Bounds of the model.                                                    *)

\* The caller invokes the function at most MaxCalls times on a block.
MaxCalls == 2

\* On the first call every word of the workspace holds a value of 0..MaxGarbage.
MaxGarbage == 1

-----------------------------------------------------------------------------
(* Constants of the program.                                               *)

THRESHOLD_PENALTY_RATE == 16
THRESHOLD_BASE == THRESHOLD_PENALTY_RATE - 2
THRESHOLD_PENALTY == 3

HASHLENGTH == 2
HASHLOG_MAX == 10
HASHTABLESIZE == 2 ^ HASHLOG_MAX

\* KNUTH is 0x9e3779b9, kept as its two 16-bit halves.
KNUTH_HI == 40503
KNUTH_LO == 31161

CHUNKSIZE == 8 * 1024

\* assert(blockSize == (128 << 10))
blockSize == 128 * 1024

split_lvl1 == 0
split_lvl2 == 1
split_lvl3 == 2
Strategies == {split_lvl1, split_lvl2, split_lvl3}

\* No offset: nothing has been returned.
NoRet == 0 - 1

-----------------------------------------------------------------------------
(* The block contents the model ranges over.  A block is a head content up *)
(* to offset cut and a tail content from there on.                         *)

\* Every byte is v.
Uniform(v) == [type |-> "uniform", a |-> v, b |-> v, period |-> 1]
\* a, a+1, ..., a+period-1 repeated: a low-entropy pattern.
Pattern(v, n) == [type |-> "pattern", a |-> v, b |-> v, period |-> n]
\* Pseudo-random bytes: high entropy.
Random == [type |-> "random", a |-> 0, b |-> 0, period |-> 1]
\* Byte b at every period-th offset of each chunk, byte a elsewhere.
Stride == [type |-> "stride", a |-> 97, b |-> 98, period |-> 11]

\* Byte i of a block filled with content k.
KindByte(k, i) ==
    CASE k.type = "uniform" -> k.a
      [] k.type = "pattern" -> k.a + (i % k.period)
      [] k.type = "random" ->
            ((((i % 1021) * (i % 1019)) + ((i % 509) * (i % 127))) % 65521) % 256
      [] k.type = "stride" -> IF (i % CHUNKSIZE) % k.period = 0 THEN k.b ELSE k.a

Cuts == {CHUNKSIZE, blockSize \div 2, blockSize - CHUNKSIZE}

Whole(k) == [head |-> k, tail |-> k, cut |-> blockSize]

\* Uniform blocks; a change of byte value and a change from a pattern to
\* pseudo-random bytes at each cut; at the middle, a tail that differs from the
\* head at every 11th offset only, and a second pattern.
Blocks ==
    {Whole(Uniform(97)), Whole(Uniform(0))}
    \cup {[head |-> c[1], tail |-> c[2], cut |-> t] :
             c \in {<<Uniform(97), Uniform(98)>>, <<Pattern(97, 3), Random>>},
             t \in Cuts}
    \cup {[head |-> c[1], tail |-> c[2], cut |-> blockSize \div 2] :
             c \in {<<Uniform(97), Stride>>, <<Pattern(65, 7), Random>>}}

byteAt(b, i) == IF i < b.cut THEN KindByte(b.head, i) ELSE KindByte(b.tail, i)

-----------------------------------------------------------------------------
(* The hasher.                                                             *)

\* The 16-bit value at offset p, read low byte first (a little-endian host).
MEM_read16(b, p) == byteAt(b, p) + 256 * byteAt(b, p + 1)

\* Bits 16..31 of the 32-bit product (U32)v * KNUTH, for a 16-bit v.
Mul32High16(v) ==
    LET lo == v * KNUTH_LO
        hi == ((v % 256) * KNUTH_HI + (((v \div 256) * KNUTH_HI) % 256) * 256) % 65536
    IN  (hi + lo \div 65536) % 65536

\* (U32)(MEM_read16(p)) * KNUTH >> (32 - hashLog)
hash2(b, p, hashLog) == Mul32High16(MEM_read16(b, p)) \div (2 ^ (16 - hashLog))

-----------------------------------------------------------------------------
(* The fingerprint recorder.                                               *)

Buckets == 0 .. (HASHTABLESIZE - 1)

\* Mutant: the limit forgets the width of the window.
LimitWholeSize(srcSize) == srcSize

\* size_t limit = srcSize - HASHLENGTH + 1;
Limit(srcSize) == srcSize - HASHLENGTH + 1

\* The values n takes in: for (n = 0; n < limit; n += samplingRate)
LoopOffsets(limit, samplingRate) == {n \in 0 .. (limit - 1) : n % samplingRate = 0}

\* The loop increments events[hash2(p+n)] once per n: events grows by the bag
\* of the hashes of the sampled windows.
addEvents_generic(fp, b, p, srcSize, samplingRate, hashLog) ==
    LET limit == Limit(srcSize)
        hits == BagOfAll(LAMBDA n : hash2(b, p + n, hashLog),
                         SetToBag(LoopOffsets(limit, samplingRate)))
    IN  [events |-> [h \in Buckets |-> fp.events[h] + CopiesIn(h, hits)],
         nbEvents |-> fp.nbEvents + (limit \div samplingRate)]

\* Mutant: the recorder adds to the fingerprint without clearing it first.
recordFingerprint_noReset(fp, b, p, srcSize, samplingRate, hashLog) ==
    addEvents_generic(fp, b, p, srcSize, samplingRate, hashLog)

\* The memset clears the first 1 << hashLog counters only.
recordFingerprint_generic(fp, b, p, srcSize, samplingRate, hashLog) ==
    addEvents_generic(
        [events |-> [h \in Buckets |-> IF h < 2 ^ hashLog THEN 0 ELSE fp.events[h]],
         nbEvents |-> 0],
        b, p, srcSize, samplingRate, hashLog)

ZSTD_recordFingerprint_1(fp, b, p, srcSize) ==
    recordFingerprint_generic(fp, b, p, srcSize, 1, 10)
ZSTD_recordFingerprint_5(fp, b, p, srcSize) ==
    recordFingerprint_generic(fp, b, p, srcSize, 5, 10)
ZSTD_recordFingerprint_11(fp, b, p, srcSize) ==
    recordFingerprint_generic(fp, b, p, srcSize, 11, 9)

\* records_fs[splitStrat](fp, src, srcSize)
records_fs(strat, fp, b, p, srcSize) ==
    CASE strat = split_lvl1 -> ZSTD_recordFingerprint_11(fp, b, p, srcSize)
      [] strat = split_lvl2 -> ZSTD_recordFingerprint_5(fp, b, p, srcSize)
      [] strat = split_lvl3 -> ZSTD_recordFingerprint_1(fp, b, p, srcSize)

\* The sampling rate of the recorder records_fs selects.
samplingRateOf(strat) ==
    CASE strat = split_lvl1 -> 11
      [] strat = split_lvl2 -> 5
      [] strat = split_lvl3 -> 1

\* Mutant: the table of hash widths is out of step with the recorders (level 3
\* records with 10 bits and is compared on 9).
hashParamsStale(strat) ==
    CASE strat = split_lvl1 -> 9
      [] strat = split_lvl2 -> 10
      [] strat = split_lvl3 -> 9

hashParams(strat) ==
    CASE strat = split_lvl1 -> 9
      [] strat = split_lvl2 -> 10
      [] strat = split_lvl3 -> 10

-----------------------------------------------------------------------------
(* The comparator and the accumulator.                                     *)

\* Mutant: the sign is kept.
abs64NoNegate(s64) == s64

abs64(s64) == IF s64 < 0 THEN -s64 ELSE s64

\* The sum over the buckets lo..hi of fpDistance's loop.
RECURSIVE fpDistanceOver(_, _, _, _)
fpDistanceOver(fp1, fp2, lo, hi) ==
    IF lo = hi
    THEN abs64(fp1.events[lo] * fp2.nbEvents - fp2.events[lo] * fp1.nbEvents)
    ELSE LET mid == (lo + hi) \div 2
         IN  fpDistanceOver(fp1, fp2, lo, mid) + fpDistanceOver(fp1, fp2, mid + 1, hi)

fpDistance(fp1, fp2, hashLog) == fpDistanceOver(fp1, fp2, 0, 2 ^ hashLog - 1)

\* x * m / d in U64, rounded down, without a product above 31 bits.
MulDiv(x, m, d) == (x \div d) * m + ((x % d) * m) \div d

\* U64 threshold = p50 * (U64)(THRESHOLD_BASE + penalty) / THRESHOLD_PENALTY_RATE;
Threshold(ref, newfp, pen) ==
    LET p50 == ref.nbEvents * newfp.nbEvents
    IN  MulDiv(p50, THRESHOLD_BASE + pen, THRESHOLD_PENALTY_RATE)

\* Mutant: the comparison is inverted.
TooDifferentInverted(dev, thr) == dev <= thr

\* return deviation >= threshold;
TooDifferent(dev, thr) == dev >= thr

\* The locals of compareFingerprints and the value it returns.
compareFingerprints(ref, newfp, pen, hashLog) ==
    LET dev == fpDistance(ref, newfp, hashLog)
        thr == Threshold(ref, newfp, pen)
    IN  [deviation |-> dev, threshold |-> thr, result |-> TooDifferent(dev, thr)]

mergeEvents(acc, newfp) ==
    [events |-> [n \in Buckets |-> acc.events[n] + newfp.events[n]],
     nbEvents |-> acc.nbEvents + newfp.nbEvents]

ZeroFingerprint == [events |-> [h \in Buckets |-> 0], nbEvents |-> 0]

\* Mutant: the workspace is used as found.
initStatsSkipped(stats) == stats

\* ZSTD_memset(fpstats, 0, sizeof(FPStats));
initStats(stats) == [pastEvents |-> ZeroFingerprint, newEvents |-> ZeroFingerprint]

-----------------------------------------------------------------------------
(* The driver, ZSTD_splitBlock_byChunks.                                   *)

\* Mutants: the loop stops one chunk early; pos advances by the number of
\* windows of a chunk instead of its size.
LoopCondStrict(p) == p < blockSize - CHUNKSIZE
NextPosByLimit(p) == p + Limit(CHUNKSIZE)

\* for (pos = CHUNKSIZE; pos <= blockSize - CHUNKSIZE; pos += CHUNKSIZE)
LoopStart == CHUNKSIZE
LoopCond(p) == p <= blockSize - CHUNKSIZE
NextPos(p) == p + CHUNKSIZE

\* Mutant: the penalty is decremented without the test.
DecayPenaltyNoFloor(pen) == pen - 1

\* if (penalty > 0) penalty--;
DecayPenalty(pen) == IF pen > 0 THEN pen - 1 ELSE pen

\* A workspace whose every word holds g.
Dirty(g) ==
    LET fp == [events |-> [h \in Buckets |-> g], nbEvents |-> g]
    IN  [pastEvents |-> fp, newEvents |-> fp]

Init ==
    /\ block \in Blocks
    /\ splitStrat \in Strategies
    /\ \E g \in 0 .. MaxGarbage : fpstats = Dirty(g)
    /\ penalty = THRESHOLD_PENALTY
    /\ pos = 0
    /\ pc = "INIT"
    /\ ret = NoRet
    /\ src = 0
    /\ deviation = 0
    /\ threshold = 0
    /\ returned = [s \in Strategies |-> NoRet]
    /\ calls = 1

\* initStats(fpstats); record_f(&fpstats->pastEvents, p, CHUNKSIZE); pos = CHUNKSIZE
Enter ==
    /\ pc = "INIT"
    /\ LET zeroed == initStats(fpstats)
       IN  fpstats' = [zeroed EXCEPT
               !.pastEvents = records_fs(splitStrat, zeroed.pastEvents, block, 0, CHUNKSIZE)]
    /\ src' = 0
    /\ pos' = LoopStart
    /\ pc' = "SCANNING"
    /\ UNCHANGED <<block, splitStrat, penalty, ret, deviation, threshold, returned, calls>>

\* One iteration of the loop: record the chunk at pos, compare, return pos or merge.
\* (newfp and cmp are bound by \E over a one-element set so that TLC computes
\* each once.)
Scan ==
    /\ pc = "SCANNING"
    /\ LoopCond(pos)
    /\ \E newfp \in {records_fs(splitStrat, fpstats.newEvents, block, pos, CHUNKSIZE)} :
       \E cmp \in {compareFingerprints(fpstats.pastEvents, newfp, penalty,
                                       hashParams(splitStrat))} :
           /\ src' = pos
           /\ deviation' = cmp.deviation
           /\ threshold' = cmp.threshold
           /\ IF cmp.result
              THEN /\ fpstats' = [fpstats EXCEPT !.newEvents = newfp]
                   /\ pc' = "SPLIT_FOUND"
                   /\ ret' = pos
                   /\ UNCHANGED <<penalty, pos>>
              ELSE /\ fpstats' = [pastEvents |-> mergeEvents(fpstats.pastEvents, newfp),
                                  newEvents |-> newfp]
                   /\ penalty' = DecayPenalty(penalty)
                   /\ pos' = NextPos(pos)
                   /\ UNCHANGED <<pc, ret>>
    /\ UNCHANGED <<block, splitStrat, returned, calls>>

\* The loop ends: return blockSize.
NoSplit ==
    /\ pc = "SCANNING"
    /\ ~LoopCond(pos)
    /\ pc' = "NO_SPLIT"
    /\ ret' = blockSize
    /\ UNCHANGED <<block, splitStrat, fpstats, penalty, pos, src, deviation,
                   threshold, returned, calls>>

\* The caller calls ZSTD_splitBlock again on the same block, with the same
\* workspace and a strategy no finer than the last one.
CallAgain ==
    /\ pc \in {"SPLIT_FOUND", "NO_SPLIT"}
    /\ calls < MaxCalls
    /\ \E s \in Strategies : s <= splitStrat /\ splitStrat' = s
    /\ returned' = [returned EXCEPT ![splitStrat] = ret]
    /\ calls' = calls + 1
    /\ penalty' = THRESHOLD_PENALTY
    /\ pos' = 0
    /\ pc' = "INIT"
    /\ ret' = NoRet
    /\ src' = 0
    /\ deviation' = 0
    /\ threshold' = 0
    /\ UNCHANGED <<block, fpstats>>

Next == Enter \/ Scan \/ NoSplit \/ CallAgain

Spec == Init /\ [][Next]_vars

-----------------------------------------------------------------------------
(* Definitions shared by the properties.                                   *)

Done == pc \in {"SPLIT_FOUND", "NO_SPLIT"}

\* {CHUNKSIZE, 2*CHUNKSIZE, ..., blockSize - CHUNKSIZE}
ChunkBoundaries == {k * CHUNKSIZE : k \in 1 .. (blockSize \div CHUNKSIZE - 1)}

\* What the call with strategy s returned on this block, NoRet when none has returned.
ResultOf(s) == IF Done /\ splitStrat = s THEN ret ELSE returned[s]

\* Every byte of the block has the same value.
IsUniformBlock ==
    block.head.type = "uniform" /\ block.tail.type = "uniform" /\ block.head.a = block.tail.a

\* Every chunk of the block is filled with one byte value (the cut is a chunk boundary).
HasUniformChunks ==
    block.head.type = "uniform" /\ block.tail.type = "uniform" /\ block.cut % CHUNKSIZE = 0

RECURSIVE SumEventsOver(_, _, _)
SumEventsOver(fp, lo, hi) ==
    IF lo = hi THEN fp.events[lo]
    ELSE LET mid == (lo + hi) \div 2
         IN  SumEventsOver(fp, lo, mid) + SumEventsOver(fp, mid + 1, hi)

\* The sum of all bucket counts of a fingerprint.
SumEvents(fp) == SumEventsOver(fp, 0, HASHTABLESIZE - 1)

\* The fingerprint of the chunk [p, p + CHUNKSIZE) alone.
ChunkFingerprint(b, p, strat) == records_fs(strat, ZeroFingerprint, b, p, CHUNKSIZE)

\* The bucket-wise sum of two fingerprints.
BucketSum(f, g) ==
    [events |-> [h \in Buckets |-> f.events[h] + g.events[h]],
     nbEvents |-> f.nbEvents + g.nbEvents]

\* The bucket-wise sum of the fingerprints of the chunks at 0, CHUNKSIZE, ..., below p.
RECURSIVE SumOfChunks(_, _, _)
SumOfChunks(b, p, strat) ==
    IF p = CHUNKSIZE THEN ChunkFingerprint(b, 0, strat)
    ELSE BucketSum(SumOfChunks(b, p - CHUNKSIZE, strat),
                   ChunkFingerprint(b, p - CHUNKSIZE, strat))

Max0(x) == IF x < 0 THEN 0 ELSE x

-----------------------------------------------------------------------------
(* C1.  The returned offset is one of CHUNKSIZE, 2*CHUNKSIZE, ...,         *)
(* blockSize - CHUNKSIZE, or blockSize; and when no split is reported the  *)
(* scan has ended with pos = blockSize.                                    *)
C1_ReturnedOffsetInRange ==
    /\ Done => ret \in ChunkBoundaries \cup {blockSize}
    /\ pc = "NO_SPLIT" => pos = blockSize /\ ret = blockSize

\* A scan of a block that is not uniform ends without a split, at pos = blockSize.
C1_Witness ==
    /\ pc = "NO_SPLIT"
    /\ pos = blockSize
    /\ ret = blockSize
    /\ block.tail.type = "stride"

-----------------------------------------------------------------------------
(* C2.  A block whose bytes all have the same value is never split, with   *)
(* any strategy: every comparison finds the distance below the threshold   *)
(* and the call returns blockSize.                                         *)
C2_UniformBlockNoSplit ==
    IsUniformBlock =>
        /\ pc # "SPLIT_FOUND"
        /\ Done => ret = blockSize
        /\ (pc # "INIT" /\ src > 0) => deviation < threshold

\* All 15 comparisons of a uniform block were made and accepted.
C2_Witness ==
    /\ IsUniformBlock
    /\ pc = "NO_SPLIT"
    /\ ret = blockSize
    /\ src = blockSize - CHUNKSIZE
    /\ deviation = 0
    /\ threshold > 0

-----------------------------------------------------------------------------
(* C3.  The result does not depend on what the workspace held before the   *)
(* call: once the first fingerprint is recorded nothing of the former      *)
(* contents is left (the candidate is all zero, and so is every counter of *)
(* the reference the recorder does not write), and a call on a workspace   *)
(* left behind by an earlier call returns what the earlier call with the   *)
(* same strategy returned.                                                 *)
C3_ScratchIndependence ==
    /\ (pc = "SCANNING" /\ pos = LoopStart) =>
           /\ fpstats.newEvents = ZeroFingerprint
           /\ \A h \in Buckets :
                  h >= 2 ^ hashParams(splitStrat) => fpstats.pastEvents.events[h] = 0
    /\ (Done /\ returned[splitStrat] # NoRet) => ret = returned[splitStrat]

\* A second call with the same strategy, on the workspace the first left
\* behind, reports the same split.
C3_Witness ==
    /\ pc = "SPLIT_FOUND"
    /\ calls = 2
    /\ returned[splitStrat] # NoRet
    /\ ret = returned[splitStrat]
    /\ ret < blockSize

-----------------------------------------------------------------------------
(* C4.  During a scan, nbEvents of the reference and of the candidate      *)
(* equals the sum of their bucket counts.                                  *)
C4_TotalIsSumOfCounts ==
    pc # "INIT" =>
        /\ fpstats.pastEvents.nbEvents = SumEvents(fpstats.pastEvents)
        /\ fpstats.newEvents.nbEvents = SumEvents(fpstats.newEvents)

-----------------------------------------------------------------------------
(* C5, as stated.  A reported split point is a multiple of CHUNKSIZE       *)
(* strictly between CHUNKSIZE and blockSize - CHUNKSIZE.                   *)
C5_SplitStrictlyInside ==
    pc = "SPLIT_FOUND" =>
        /\ ret % CHUNKSIZE = 0
        /\ CHUNKSIZE < ret
        /\ ret < blockSize - CHUNKSIZE

(* C5, amended.  A reported split point is a multiple of CHUNKSIZE with    *)
(* CHUNKSIZE <= pos <= blockSize - CHUNKSIZE: both ends are split points.  *)
C5_SplitWithinClosedRange ==
    pc = "SPLIT_FOUND" =>
        /\ ret % CHUNKSIZE = 0
        /\ CHUNKSIZE <= ret
        /\ ret <= blockSize - CHUNKSIZE

\* A split reported at the last chunk.
C5_Witness ==
    /\ pc = "SPLIT_FOUND"
    /\ ret = blockSize - CHUNKSIZE

-----------------------------------------------------------------------------
(* C6.  The penalty is never negative.  It starts at THRESHOLD_PENALTY and *)
(* loses one per accepted comparison while positive: the comparison at     *)
(* pos = k*CHUNKSIZE, the k-th, uses max(0, 3 - (k - 1)).                  *)
C6_PenaltyDecay ==
    pc # "INIT" =>
        /\ penalty >= 0
        /\ penalty = Max0(THRESHOLD_PENALTY - (pos \div CHUNKSIZE - 1))

\* Four comparisons were accepted: the fourth found the penalty at 0 and left it there.
C6_Witness ==
    /\ pc = "SCANNING"
    /\ pos = 5 * CHUNKSIZE
    /\ penalty = 0

-----------------------------------------------------------------------------
(* C7, as stated.  On the same block, if level 1 reports a split then      *)
(* level 3 reports one.                                                    *)
C7_Level3DetectsWhenLevel1Does ==
    (/\ ResultOf(split_lvl1) # NoRet
     /\ ResultOf(split_lvl3) # NoRet
     /\ ResultOf(split_lvl1) < blockSize) => ResultOf(split_lvl3) < blockSize

(* C7, amended.  On a block whose every chunk is filled with one byte      *)
(* value, if level 1 reports a split then level 3 reports one.             *)
C7_Level3DetectsOnUniformChunks ==
    (/\ HasUniformChunks
     /\ ResultOf(split_lvl1) # NoRet
     /\ ResultOf(split_lvl3) # NoRet
     /\ ResultOf(split_lvl1) < blockSize) => ResultOf(split_lvl3) < blockSize

\* Level 3, then level 1, both report a split of a block of uniform chunks.
C7_Witness ==
    /\ HasUniformChunks
    /\ pc = "SPLIT_FOUND"
    /\ splitStrat = split_lvl1
    /\ returned[split_lvl3] # NoRet
    /\ returned[split_lvl3] < blockSize

-----------------------------------------------------------------------------
(* C8.  A low-entropy pattern in the first half and pseudo-random bytes in *)
(* the second: level 3 returns a multiple of CHUNKSIZE in the second half, *)
(* blockSize/2 <= offset < blockSize.                                      *)
C8_AbruptShift ==
    (/\ block.head.type = "pattern"
     /\ block.tail.type = "random"
     /\ block.cut = blockSize \div 2
     /\ splitStrat = split_lvl3
     /\ Done) =>
        /\ ret % CHUNKSIZE = 0
        /\ blockSize \div 2 <= ret
        /\ ret < blockSize

\* The split of such a block is reported where the content changes.
C8_Witness ==
    /\ block.head.type = "pattern"
    /\ block.tail.type = "random"
    /\ block.cut = blockSize \div 2
    /\ splitStrat = split_lvl3
    /\ pc = "SPLIT_FOUND"
    /\ ret = blockSize \div 2

-----------------------------------------------------------------------------
(* C9.  First detection wins.  Chunk 0 only seeds the reference.  At the   *)
(* comparison at pos the reference is the bucket-wise sum of the           *)
(* fingerprints of the chunks below pos and the candidate is the           *)
(* fingerprint of the chunk at pos alone.  If the distance is at least     *)
(* refTotal*candTotal*(14+penalty)/16 the call returns pos, the candidate  *)
(* is not merged and no further chunk is read; otherwise the candidate is  *)
(* merged and the scan moves on.  blockSize is returned only after every   *)
(* comparison accepted.                                                    *)
(*                                                                         *)
(* The reference being the sum is stated by induction (C9_Seed for chunk   *)
(* 0, C9_Compare for each comparison) and, for the first call with level  *)
(* 1, directly (C9_Reference).                                             *)

\* Entering: the reference is the fingerprint of chunk 0, nothing is compared.
C9_Seed ==
    pc = "INIT" =>
        /\ pc' = "SCANNING"
        /\ pos' = CHUNKSIZE
        /\ fpstats'.pastEvents = ChunkFingerprint(block, 0, splitStrat)
        /\ UNCHANGED <<deviation, threshold, ret>>

\* One comparison.
C9_Compare ==
    (pc = "SCANNING" /\ pos <= blockSize - CHUNKSIZE) =>
        \E cand \in {ChunkFingerprint(block, pos, splitStrat)} :
            /\ fpstats'.newEvents = cand
            /\ deviation' = fpDistance(fpstats.pastEvents, cand, hashParams(splitStrat))
            /\ threshold' = MulDiv(fpstats.pastEvents.nbEvents * cand.nbEvents,
                                   14 + penalty, 16)
            /\ IF deviation' >= threshold'
               THEN /\ pc' = "SPLIT_FOUND"
                    /\ ret' = pos
                    /\ fpstats'.pastEvents = fpstats.pastEvents
               ELSE /\ pc' = "SCANNING"
                    /\ ret' = NoRet
                    /\ pos' = pos + CHUNKSIZE
                    /\ fpstats'.pastEvents = BucketSum(fpstats.pastEvents, cand)

\* The end: blockSize after the last chunk, and nothing is read after a return.
C9_End ==
    /\ (pc = "SCANNING" /\ pos > blockSize - CHUNKSIZE) =>
           pc' = "NO_SPLIT" /\ ret' = blockSize /\ UNCHANGED <<fpstats, src>>
    /\ Done => pc' = "INIT" /\ UNCHANGED fpstats

\* With level 1, on the first call, the reference is the sum of the fingerprints
\* of the chunks below pos; the latest comparison was accepted while the scan
\* goes on and rejected at pos when a split is reported.
C9_Reference ==
    /\ (pc = "SCANNING" /\ splitStrat = split_lvl1 /\ calls = 1) =>
           fpstats.pastEvents = SumOfChunks(block, pos, splitStrat)
    /\ pc = "SCANNING" => (src = pos - CHUNKSIZE /\ (src > 0 => deviation < threshold))
    /\ pc = "SPLIT_FOUND" => (src = pos /\ ret = pos /\ deviation >= threshold)

C9_FirstDetectionWins ==
    /\ []C9_Reference
    /\ [][C9_Seed /\ C9_Compare /\ C9_End]_vars

\* A split at the middle: the reference holds the eight chunks before it,
\* the rejected candidate is not part of it.
C9_Witness ==
    /\ pc = "SPLIT_FOUND"
    /\ ret = blockSize \div 2
    /\ src = ret
    /\ fpstats.newEvents.nbEvents > 0
    /\ fpstats.pastEvents.nbEvents = 8 * fpstats.newEvents.nbEvents

-----------------------------------------------------------------------------
(* C10.  Every 2-byte window hashed lies inside the chunk being recorded,  *)
(* and the chunk inside the block: for the chunk at src and every sampled  *)
(* offset n, n <= CHUNKSIZE - 2 and the bytes read are src+n and src+n+1   *)
(* with src+n+1 < src+CHUNKSIZE <= blockSize.                              *)
C10_WindowsInsideChunk ==
    pc # "INIT" =>
        /\ src \in {0} \cup ChunkBoundaries
        /\ src + CHUNKSIZE <= blockSize
        /\ \A n \in LoopOffsets(Limit(CHUNKSIZE), samplingRateOf(splitStrat)) :
               /\ n <= CHUNKSIZE - 2
               /\ src <= src + n
               /\ src + n + 1 < src + CHUNKSIZE

\* The last chunk was recorded by level 3: it reads up to the last byte of the block.
C10_Witness ==
    /\ pc = "NO_SPLIT"
    /\ splitStrat = split_lvl3
    /\ src = blockSize - CHUNKSIZE
    /\ (CHUNKSIZE - 2) \in LoopOffsets(Limit(CHUNKSIZE), samplingRateOf(splitStrat))

====
